---- MODULE Spec2Model ----
(***************************************************************************)
(* Model of CSC314_2022_Fall_RyanRiccio_Covid.py: the COVID death          *)
(* visualisation for California counties.                                  *)
(*                                                                         *)
(* A DataFrame is a function from its index (county names) to a row, a     *)
(* sequence of cells in column order.  Column positions are the 0-based    *)
(* positions pandas' iloc uses; Cell(row, c) reads position c.             *)
(* Cells of the cumulative and daily tables are integers.  Cells of an     *)
(* averaged table are exact rationals <<numerator, denominator>> in lowest *)
(* terms (pandas computes them in float64; the model keeps the exact       *)
(* value of each mean).                                                    *)
(***************************************************************************)
EXTENDS Integers, Sequences, FiniteSets, TLC

VARIABLES
    pc,             \* position in run_program / in the function pipeline
    argv,           \* the county argument as passed by the caller
    county,         \* run_program's local `county`
    stats_file,     \* does california_county_stats.txt exist
    cache,          \* death_data.csv: [exists, age (seconds), data]
    cache_at_call,  \* history: death_data.csv when get_data was entered
    source,         \* whose bytes pd.read_csv parsed: "cached" or "remote"
    downloaded,     \* request.urlretrieve: "no" call, "ok" or "failed"
    csv,            \* the time-series table as read from the file
    ca_stats_df,    \* county-metadata table
    ca_covid_df,    \* time-series table, converted in place
    total_deaths,   \* Series of total deaths per county
    n,              \* window size passed to n_day_average
    ca_avg_df,      \* averaged table
    county_avg_df,  \* row of the selected county
    figure,         \* what has been drawn
    result          \* how the call ended

vars == <<pc, argv, county, stats_file, cache, cache_at_call, source,
          downloaded, csv,
          ca_stats_df, ca_covid_df, total_deaths, n, ca_avg_df,
          county_avg_df, figure, result>>

----------------------------------------------------------------------------
(* Bounds *)

MaxCols == 3        \* date columns of a table given to the two functions
MaxVal == 1         \* largest cumulative count in such a table
MaxN == 3           \* largest window size given to n_day_average
MaxNameLen == 2     \* longest county argument
RunCols == 9        \* date columns of the downloaded table
MaxRunDeaths == 1   \* largest state-wide total of the downloaded table
MaxAgeOver == 1     \* cache ages range this far around the threshold

----------------------------------------------------------------------------
(* Exact rational arithmetic for DataFrame.mean *)

Abs(x) == IF x < 0 THEN -x ELSE x

RECURSIVE GCD(_, _)
GCD(a, b) == IF b = 0 THEN a ELSE GCD(b, a % b)

Rat(num, den) ==
    LET g == GCD(Abs(num), den) IN <<(num \div g), (den \div g)>>

RatOfInt(i) == <<i, 1>>

RatAdd(p, q) == Rat(p[1] * q[2] + q[1] * p[2], p[2] * q[2])

RECURSIVE RatSum(_)
RatSum(cells) ==
    IF cells = <<>> THEN RatOfInt(0)
    ELSE RatAdd(cells[1], RatSum(Tail(cells)))

RECURSIVE IntSum(_)
IntSum(cells) ==
    IF cells = <<>> THEN 0 ELSE cells[1] + IntSum(Tail(cells))

\* Series.mean / DataFrame.mean(axis=1) over the cells of one row
mean(cells) ==
    LET s == RatSum(cells) IN Rat(s[1], s[2] * Len(cells))

----------------------------------------------------------------------------
(* DataFrame access *)

NoTable == [none |-> TRUE]

Cell(row, c) == row[c + 1]

\* df.shape[1]
shape1(df) == IF DOMAIN df = {} THEN 0 ELSE Len(df[CHOOSE k \in DOMAIN df : TRUE])

\* df.iloc[:, column] = values   (values indexed like df)
set_column(df, column, values) ==
    [k \in DOMAIN df |-> [df[k] EXCEPT ![column + 1] = values[k]]]

\* row.iloc[start:stop], the stop clipped to the row's length as pandas does
iloc_slice(row, start, stop) ==
    LET hi == IF stop > Len(row) THEN Len(row) ELSE stop
    IN  IF hi <= start THEN <<>> ELSE SubSeq(row, start + 1, hi)

\* df.columns.get_loc("1/22/20"): get_data drops every column that is not a
\* date, so the first recorded date is the first column
first_column == 0

----------------------------------------------------------------------------
(* convert_to_daily *)

\* the columns visited, in order: range(last_column, first_column, -1)
daily_range_ascending(first, last) ==
    [i \in 1..(IF last > first THEN last - first ELSE 0) |-> first + i]

daily_range_short(first, last) ==
    [i \in 1..(IF last - 1 > first THEN last - 1 - first ELSE 0) |-> last - i]

daily_range(first, last) ==
    [i \in 1..(IF last > first THEN last - first ELSE 0) |-> last - i + 1]

\* the loop of lines 66-67 over the columns still to visit
RECURSIVE daily_loop(_, _)
daily_loop(df, columns) ==
    IF columns = <<>> THEN df
    ELSE LET column == Head(columns)
             diff == [k \in DOMAIN df |->
                        Cell(df[k], column) - Cell(df[k], column - 1)]
         IN  daily_loop(set_column(df, column, diff), Tail(columns))

\* returns [df, total_deaths]
convert_to_daily(df) ==
    LET last_column == shape1(df) - 1
        total == [k \in DOMAIN df |-> Cell(df[k], last_column)]
    IN  [df |-> daily_loop(df, daily_range(first_column, last_column)),
         total_deaths |-> total]

----------------------------------------------------------------------------
(* n_day_average *)

\* avg = df.copy(); the cells become floats as soon as a mean is stored
copy(df) ==
    [k \in DOMAIN df |-> [i \in 1..Len(df[k]) |-> RatOfInt(df[k][i])]]

\* the slice column:column + n of line 97, as <<start, stop>>
main_window_wide(column, w) == <<column, column + w + 1>>

main_window(column, w) == <<column, column + w>>

\* for column in range(column, stop): line 97
RECURSIVE main_loop(_, _, _, _)
main_loop(avg, column, stop, w) ==
    IF column >= stop THEN avg
    ELSE LET win == main_window(column, w)
             means == [k \in DOMAIN avg |->
                         mean(iloc_slice(avg[k], win[1], win[2]))]
         IN  main_loop(set_column(avg, column, means), column + 1, stop, w)

\* for column in range(column, stop): line 101.  Assigning to a column
\* position past the last one raises IndexError (iloc cannot enlarge).
RECURSIVE edge_loop(_, _, _)
edge_loop(avg, column, stop) ==
    IF column >= stop THEN [error |-> "none", table |-> avg]
    ELSE IF column >= shape1(avg)
         THEN [error |-> "IndexError", table |-> NoTable]
         ELSE LET means == [k \in DOMAIN avg |->
                              mean(iloc_slice(avg[k], first_column, column + 1))]
              IN  edge_loop(set_column(avg, column, means), column + 1, stop)

\* returns [error, table]
n_day_average(df, w) ==
    LET last_column == shape1(df) - 1
        avg == main_loop(copy(df), first_column + w, last_column, w)
    IN  edge_loop(avg, first_column, w)

----------------------------------------------------------------------------
(* Inputs of the function pipeline *)

Chars == {"a", "A", " "}

Names == UNION {[1..len -> Chars] : len \in 1..MaxNameLen}

County1 == <<"A", "a">>
County2 == <<"A">>
Counties == {County1, County2}

ExampleRow == <<0, 0, 2, 2, 5>>

RowsOfLen(len, maxval) == [1..len -> 0..maxval]

FnTables ==
    UNION {[Counties -> RowsOfLen(len, MaxVal)] : len \in 1..MaxCols}
    \cup {[k \in {County1} |-> ExampleRow]}

NoFile == [exists |-> FALSE, age |-> 0, data |-> "none"]

\* a row of california_county_stats.txt after the unused columns are dropped
StatsRow(k) == [Lon |-> 0 - Len(k), Lat |-> Len(k)]

StatsTable(keys) == [k \in keys |-> StatsRow(k)]

NoFigure == [daily |-> NoTable, map |-> NoTable]

InitFn ==
    /\ pc = "convert"
    /\ argv = <<>>
    /\ county = <<>>
    /\ stats_file = TRUE
    /\ cache = NoFile
    /\ cache_at_call = NoFile
    /\ source = "none"
    /\ downloaded = "no"
    /\ csv \in FnTables
    /\ ca_stats_df = StatsTable(Counties)
    /\ ca_covid_df = csv
    /\ total_deaths = NoTable
    /\ n \in 1..MaxN
    /\ ca_avg_df = NoTable
    /\ county_avg_df = NoTable
    /\ figure = NoFigure
    /\ result = "none"

FnConvertToDaily ==
    /\ pc = "convert"
    /\ LET r == convert_to_daily(ca_covid_df)
       IN  /\ ca_covid_df' = r.df
           /\ total_deaths' = r.total_deaths
    /\ pc' = "average"
    /\ UNCHANGED <<argv, county, stats_file, cache, cache_at_call, source, downloaded, csv,
                   ca_stats_df, n, ca_avg_df, county_avg_df, figure, result>>

FnNDayAverage ==
    /\ pc = "average"
    /\ LET r == n_day_average(ca_covid_df, n)
       IN  /\ ca_avg_df' = r.table
           /\ result' = IF r.error = "none" THEN "returned" ELSE r.error
    /\ pc' = "done"
    /\ UNCHANGED <<argv, county, stats_file, cache, cache_at_call, source, downloaded, csv,
                   ca_stats_df, ca_covid_df, total_deaths, n, county_avg_df,
                   figure>>

NextFn == FnConvertToDaily \/ FnNDayAverage

SpecFn == InitFn /\ [][NextFn]_vars

----------------------------------------------------------------------------
(* run_program *)

WindowDays == 7

\* the staleness threshold of line 26, in seconds
StaleSeconds == 60 * 60 * 12

IsCased(c) == c \in {"a", "A"}
upper(c) == IF c = "a" THEN "A" ELSE c
lower(c) == IF c = "A" THEN "a" ELSE c

\* str.lower
lower_name(s) == [i \in 1..Len(s) |-> lower(s[i])]

\* str.title: a cased character becomes upper case when it starts a word
\* and lower case when it follows a cased character
title_unchanged(s) == s

title(s) ==
    [i \in 1..Len(s) |->
        IF ~IsCased(s[i]) THEN s[i]
        ELSE IF i > 1 /\ IsCased(s[i - 1]) THEN lower(s[i]) ELSE upper(s[i])]

county_in_df(val, df) == val \in DOMAIN df

\* the condition of line 26
needs_download_at_threshold(file) ==
    ~file.exists \/ file.age >= StaleSeconds

needs_download(file) ==
    ~file.exists \/ file.age > StaleSeconds

\* round(x, 0) of a float64: to the nearest integer, a tie to the even one
round_half_even(q) ==
    LET lo == q[1] \div q[2]
        twice == 2 * (q[1] - lo * q[2])
    IN  IF twice < q[2] THEN lo
        ELSE IF twice > q[2] THEN lo + 1
        ELSE IF lo % 2 = 0 THEN lo ELSE lo + 1

\* Series.sum over the values of total_deaths
RECURSIVE series_sum(_)
series_sum(series) ==
    IF DOMAIN series = {} THEN 0
    ELSE LET k == CHOOSE x \in DOMAIN series : TRUE
         IN  series[k] + series_sum([j \in DOMAIN series \ {k} |-> series[j]])

\* DataFrame.sum(): the sum of every column over the rows
RECURSIVE column_sums(_)
column_sums(df) ==
    IF DOMAIN df = {} THEN <<>>
    ELSE LET k == CHOOSE x \in DOMAIN df : TRUE
             rest == [j \in DOMAIN df \ {k} |-> df[j]]
         IN  IF DOMAIN rest = {} THEN df[k]
             ELSE [i \in 1..Len(df[k]) |-> RatAdd(df[k][i], column_sums(rest)[i])]

\* the float64 not-a-number
NaN == <<0, 0>>

\* stats_df.join(total_deaths): a left join on the index, which keeps the
\* rows of stats_df only; a county of stats_df with no row in total_deaths
\* gets NaN
join(stats_df, deaths) ==
    [k \in DOMAIN stats_df |->
        [Lon |-> stats_df[k].Lon, Lat |-> stats_df[k].Lat,
         TotalDeaths |-> IF k \in DOMAIN deaths
                         THEN RatOfInt(deaths[k]) ELSE NaN]]

(* Inputs of a run *)

Ages == {0} \cup ((StaleSeconds - MaxAgeOver)..(StaleSeconds + MaxAgeOver))

CacheFiles ==
    {NoFile} \cup {[exists |-> TRUE, age |-> a, data |-> "cached"] : a \in Ages}

KeySets == SUBSET Counties \ {{}}

\* cumulative counts never decrease
CumulativeRows(len, maxval) ==
    {r \in RowsOfLen(len, maxval) : \A i \in 1..(len - 1) : r[i] <= r[i + 1]}

RunTables ==
    UNION {{t \in [ks -> CumulativeRows(len, MaxRunDeaths)] :
              series_sum([k \in ks |-> t[k][len]]) <= MaxRunDeaths} :
             ks \in KeySets, len \in {RunCols}}

Init ==
    /\ pc = "get_stats"
    /\ argv \in Names
    /\ county = argv
    /\ stats_file \in BOOLEAN
    /\ cache \in CacheFiles
    /\ cache_at_call = cache
    /\ source = "none"
    /\ downloaded = "no"
    /\ csv = NoTable
    /\ ca_stats_df = NoTable
    /\ ca_covid_df = NoTable
    /\ total_deaths = NoTable
    /\ n = 0
    /\ ca_avg_df = NoTable
    /\ county_avg_df = NoTable
    /\ figure = NoFigure
    /\ result = "none"

\* line 194, get_stats
GetStats ==
    /\ pc = "get_stats"
    /\ IF stats_file
       THEN /\ \E ks \in KeySets : ca_stats_df' = StatsTable(ks)
            /\ pc' = "get_data"
            /\ UNCHANGED result
       ELSE /\ result' = "FileNotFoundError"
            /\ pc' = "done"
            /\ UNCHANGED ca_stats_df
    /\ UNCHANGED <<argv, county, stats_file, cache, cache_at_call, source,
                   downloaded, csv, ca_covid_df, total_deaths, n,
                   ca_avg_df, county_avg_df, figure>>

\* line 195, get_data
GetData ==
    /\ pc = "get_data"
    /\ cache_at_call' = cache
    /\ IF needs_download(cache)
       THEN \/ /\ downloaded' = "ok"
               /\ cache' = [exists |-> TRUE, age |-> 0, data |-> "remote"]
            \/ /\ downloaded' = "failed"
               /\ UNCHANGED cache
       ELSE UNCHANGED <<downloaded, cache>>
    /\ IF downloaded' = "failed"
       THEN /\ result' = "URLError"
            /\ pc' = "done"
            /\ UNCHANGED <<source, csv, ca_covid_df>>
       ELSE /\ source' = cache'.data
            /\ csv' \in RunTables
            /\ ca_covid_df' = csv'
            /\ pc' = "validate"
            /\ UNCHANGED result
    /\ UNCHANGED <<argv, county, stats_file, ca_stats_df, total_deaths, n,
                   ca_avg_df, county_avg_df, figure>>

\* lines 198-200
Validate ==
    /\ pc = "validate"
    /\ county' = title(county)
    /\ IF ~county_in_df(county', ca_stats_df)
       THEN /\ result' = "ValueError"
            /\ pc' = "done"
       ELSE /\ pc' = "convert"
            /\ UNCHANGED result
    /\ UNCHANGED <<argv, stats_file, cache, cache_at_call, source,
                   downloaded, csv, ca_stats_df, ca_covid_df, total_deaths,
                   n, ca_avg_df, county_avg_df, figure>>

\* line 203
ConvertToDaily ==
    /\ pc = "convert"
    /\ LET r == convert_to_daily(ca_covid_df)
       IN  /\ ca_covid_df' = r.df
           /\ total_deaths' = r.total_deaths
    /\ pc' = "average"
    /\ UNCHANGED <<argv, county, stats_file, cache, cache_at_call, source,
                   downloaded, csv, ca_stats_df, n, ca_avg_df,
                   county_avg_df, figure, result>>

\* line 206
NDayAverage ==
    /\ pc = "average"
    /\ n' = WindowDays
    /\ LET r == n_day_average(ca_covid_df, WindowDays)
       IN  /\ ca_avg_df' = r.table
           /\ IF r.error = "none"
              THEN pc' = "get_county" /\ UNCHANGED result
              ELSE pc' = "done" /\ result' = r.error
    /\ UNCHANGED <<argv, county, stats_file, cache, cache_at_call, source,
                   downloaded, csv, ca_stats_df, ca_covid_df,
                   total_deaths, county_avg_df, figure>>

\* line 207, get_county: df.loc[county] raises KeyError on a missing label
GetCounty ==
    /\ pc = "get_county"
    /\ IF county \in DOMAIN ca_avg_df
       THEN /\ county_avg_df' = ca_avg_df[county]
            /\ pc' = "plot_daily"
            /\ UNCHANGED result
       ELSE /\ result' = "KeyError"
            /\ pc' = "done"
            /\ UNCHANGED county_avg_df
    /\ UNCHANGED <<argv, county, stats_file, cache, cache_at_call, source,
                   downloaded, csv, ca_stats_df, ca_covid_df,
                   total_deaths, n, ca_avg_df, figure>>

\* line 214, plot_daily
PlotDaily ==
    /\ pc = "plot_daily"
    /\ figure' = [figure EXCEPT !.daily =
                    [ca_y_vals |-> column_sums(ca_avg_df),
                     county_y_vals |-> county_avg_df,
                     title |-> county,
                     ca_total |-> series_sum(total_deaths),
                     county_total |-> round_half_even(RatSum(county_avg_df))]]
    /\ pc' = "plot_map"
    /\ UNCHANGED <<argv, county, stats_file, cache, cache_at_call, source,
                   downloaded, csv, ca_stats_df, ca_covid_df,
                   total_deaths, n, ca_avg_df, county_avg_df, result>>

\* line 215, plot_map
PlotMap ==
    /\ pc = "plot_map"
    /\ figure' = [figure EXCEPT !.map = join(ca_stats_df, total_deaths)]
    /\ pc' = "show"
    /\ UNCHANGED <<argv, county, stats_file, cache, cache_at_call, source,
                   downloaded, csv, ca_stats_df, ca_covid_df,
                   total_deaths, n, ca_avg_df, county_avg_df, result>>

\* line 216
Show ==
    /\ pc = "show"
    /\ result' = "shown"
    /\ pc' = "done"
    /\ UNCHANGED <<argv, county, stats_file, cache, cache_at_call, source,
                   downloaded, csv, ca_stats_df, ca_covid_df,
                   total_deaths, n, ca_avg_df, county_avg_df, figure>>

Next ==
    \/ GetStats
    \/ GetData
    \/ Validate
    \/ ConvertToDaily
    \/ NDayAverage
    \/ GetCounty
    \/ PlotDaily
    \/ PlotMap
    \/ Show

Spec == Init /\ [][Next]_vars

(* get_data called on its own *)

InitGetData ==
    /\ pc = "get_data"
    /\ argv = <<>>
    /\ county = <<>>
    /\ stats_file = TRUE
    /\ cache \in CacheFiles
    /\ cache_at_call = cache
    /\ source = "none"
    /\ downloaded = "no"
    /\ csv = NoTable
    /\ ca_stats_df = NoTable
    /\ ca_covid_df = NoTable
    /\ total_deaths = NoTable
    /\ n = 0
    /\ ca_avg_df = NoTable
    /\ county_avg_df = NoTable
    /\ figure = NoFigure
    /\ result = "none"

SpecGetData == InitGetData /\ [][GetData]_vars

----------------------------------------------------------------------------
(* Properties of convert_to_daily and n_day_average *)

converted == total_deaths # NoTable

averaged == pc = "done" /\ result = "returned"

\* the daily table n_day_average was given
daily_input == convert_to_daily(csv).df

\* C1: after convert_to_daily, in every row the first date column keeps its
\* original value, every later column holds original[i] - original[i-1], and
\* total_deaths holds the row's original last cumulative value.
DailyIsDifferenceOfOriginal ==
    converted =>
        /\ DOMAIN ca_covid_df = DOMAIN csv
        /\ DOMAIN total_deaths = DOMAIN csv
        /\ \A k \in DOMAIN csv :
              /\ Len(ca_covid_df[k]) = Len(csv[k])
              /\ ca_covid_df[k][1] = csv[k][1]
              /\ \A i \in 2..Len(csv[k]) :
                    ca_covid_df[k][i] = csv[k][i] - csv[k][i - 1]
              /\ total_deaths[k] = csv[k][Len(csv[k])]

DailyExampleConverted ==
    /\ converted
    /\ csv = [k \in {County1} |-> ExampleRow]
    /\ ca_covid_df[County1] = <<0, 0, 2, 0, 3>>
    /\ total_deaths[County1] = 5

\* C4: after convert_to_daily, the sum of a row's daily values equals the
\* row's original last cumulative value (minus zero, there being no column
\* before the first date), which is the total_deaths value of that row.
DailySumIsTotalDeaths ==
    converted =>
        \A k \in DOMAIN csv :
            /\ IntSum(ca_covid_df[k]) = csv[k][Len(csv[k])] - 0
            /\ IntSum(ca_covid_df[k]) = total_deaths[k]

DailySumOverSeveralDays ==
    /\ converted
    /\ \E k \in DOMAIN csv :
          /\ Len(csv[k]) >= 3
          /\ csv[k][Len(csv[k]) - 1] > 0
          /\ \E i \in 2..Len(csv[k]) : ca_covid_df[k][i] # 0
          /\ IntSum(ca_covid_df[k]) = total_deaths[k]

\* C2: n_day_average with window n puts in every column after the first n,
\* the last column included, the mean of the input's value in that column
\* and in the n-1 columns before it.
AverageIsTrailingWindow ==
    averaged =>
        \A k \in DOMAIN daily_input :
            \A column \in (first_column + n)..(shape1(daily_input) - 1) :
                Cell(ca_avg_df[k], column) =
                    mean(iloc_slice(copy(daily_input)[k],
                                    column - n + 1, column + 1))

\* C3: n_day_average with window n puts in every column k of the first n
\* the mean of the input values of columns first..k.
AverageShrinksOverInput ==
    averaged =>
        \A k \in DOMAIN daily_input :
            \A column \in first_column..(first_column + n - 1) :
                Cell(ca_avg_df[k], column) =
                    mean(iloc_slice(copy(daily_input)[k],
                                    first_column, column + 1))

\* C8: with window size 1 n_day_average returns a table every cell of which
\* equals the corresponding cell of its input.
AverageOfOneIsIdentity ==
    (pc = "done" /\ n = 1) =>
        /\ result = "returned"
        /\ ca_avg_df = copy(daily_input)

AverageOfOneOverSeveralDays ==
    /\ averaged
    /\ n = 1
    /\ \E k \in DOMAIN ca_avg_df :
          /\ Len(ca_avg_df[k]) >= 3
          /\ \E i \in 2..(Len(ca_avg_df[k]) - 1) :
                ca_avg_df[k][i] # ca_avg_df[k][i + 1]

\* C9: for every window size n >= 1, also one larger than the number of
\* date columns, n_day_average returns a table with the rows and columns of
\* its input and leaves its input and the metadata table unchanged.
AverageKeepsShape ==
    pc = "done" =>
        /\ result = "returned"
        /\ DOMAIN ca_avg_df = DOMAIN daily_input
        /\ \A k \in DOMAIN daily_input :
              Len(ca_avg_df[k]) = Len(daily_input[k])
        /\ ca_covid_df = daily_input
        /\ ca_stats_df = StatsTable(Counties)

----------------------------------------------------------------------------
(* Properties of run_program and get_data *)

both_loaded == ca_stats_df # NoTable /\ csv # NoTable

transformed ==
    total_deaths # NoTable \/ ca_avg_df # NoTable \/ n # 0 \/ figure # NoFigure

\* C5: a county argument whose title-cased form is not a key of the
\* metadata table ends the run with ValueError, never with KeyError, and
\* before convert_to_daily, n_day_average or any plotting has run; an
\* argument that differs from a metadata key only by case is accepted.
InvalidCountyFailsValidation ==
    both_loaded =>
        /\ title(argv) \notin DOMAIN ca_stats_df =>
              /\ pc \in {"validate", "done"}
              /\ ~transformed
              /\ result \in {"none", "ValueError"}
              /\ pc = "done" => result = "ValueError"
        /\ (\E k \in DOMAIN ca_stats_df : lower_name(k) = lower_name(argv)) =>
              /\ result # "ValueError"
              /\ pc # "validate" => county \in DOMAIN ca_stats_df

InvalidCountyRejected ==
    /\ both_loaded
    /\ title(argv) \notin DOMAIN ca_stats_df
    /\ pc = "done"
    /\ result = "ValueError"
    /\ ~transformed

\* C6: when plotting is reached the selected county and every county drawn
\* on the map are in both tables, and a run whose two tables do not have the
\* same counties fails instead of showing a figure with an empty or dropped
\* entry.
PlottedCountiesInBothTables ==
    /\ pc \in {"plot_daily", "plot_map", "show"} =>
          county \in DOMAIN ca_stats_df /\ county \in DOMAIN ca_covid_df
    /\ figure.map # NoTable =>
          \A k \in DOMAIN figure.map :
              k \in DOMAIN ca_covid_df /\ figure.map[k].TotalDeaths # NaN
    /\ result = "shown" => DOMAIN ca_stats_df = DOMAIN ca_covid_df

get_data_ran == pc \notin {"get_stats", "get_data"} /\ result # "FileNotFoundError"

LabelsAreTotalDeaths ==
    figure.daily # NoTable =>
        /\ figure.daily.ca_total =
              series_sum([k \in DOMAIN csv |-> csv[k][Len(csv[k])]])
        /\ figure.daily.county_total = csv[county][Len(csv[county])]
        /\ figure.daily.county_total <= figure.daily.ca_total

====
